---- MODULE Spec2Model ----
(***************************************************************************)
(* The users / books REST backend: the two controllers, the two services   *)
(* and the two tables they persist to.  One action is one database round   *)
(* trip of one HTTP request (every `await` on a repository call); the pure *)
(* work between two round trips (hashing, Object.assign, building the      *)
(* response) belongs to the round trip that follows it.                    *)
(*                                                                         *)
(* Columns no claim reads (User.name, Book.price, the timestamps) are left *)
(* out of the rows.                                                        *)
(***************************************************************************)
EXTENDS Integers, Sequences, FiniteSets, TLC

\* ------------------------------------------------------------------ bounds
\* Number of ids the uuid generator of each table hands out in one behaviour.
MaxUsers == 2
MaxBooks == 1
\* Number of HTTP requests that may be between two of their round trips.
MaxInFlight == 2

\* ------------------------------------------------------------ input domains
\* An id that no table ever generated (a well-formed uuid unknown to the database).
UnknownId == 0
UserIds == 1..MaxUsers
BookIds == 1..MaxBooks
Emails == {"a@b.com", "c@d.com"}
EmptyString == ""
\* The password a signup sends, those a PUT sends, and those a login tries.
SignupPasswords == {"12345678"}
UpdatePasswords == {"abcdefgh", EmptyString}
Passwords == SignupPasswords \cup UpdatePasswords
Titles == {"T", "New"}
Authors == {"A"}
\* The authors GET /books/author/:id asks for: one in another case, one unknown.
AuthorQueries == {"a", "B"}
Slots == 1..MaxInFlight

\* An optional value (a value or null/undefined) is a sequence of length <= 1.
None == << >>
Some(x) == << x >>
IsSome(o) == o # << >>
Get(o) == o[1]

\* ------------------------------------------------------------------ bcrypt
HashCost == 10
\* bcrypt.hash(plain, 10): the "$2b$<cost>$" header followed by salt and digest;
\* salt and digest are represented by the plaintext they were derived from.
BcryptHash(plain) == << "$2b$", HashCost, plain >>
\* A request string stored as it came.
Raw(plain) == << plain >>
\* bcrypt.compare(plain, stored): false for anything that is not a hash of plain.
BcryptCompare(plain, stored) == stored = BcryptHash(plain)
\* JS truthiness of an optional string: undefined and "" are falsy.
Truthy(o) == IsSome(o) /\ Get(o) # EmptyString

\* ------------------------------------------------------------------- state
VARIABLES
  users,     \* the users table: id -> [email, password]
  books,     \* the books table: id -> [title, isSold, buyerId]
  userSeq,   \* number of user ids generated so far
  bookSeq,   \* number of book ids generated so far
  inflight,  \* per slot: the request waiting between two round trips, or Idle
  last,      \* the response the latest round trip sent, or NoResponse if it sent none
  removedUsers, \* ids for which DELETE /users/:id has responded 204
  removedBooks  \* ids for which DELETE /books/:id has responded 204

vars == << users, books, userSeq, bookSeq, inflight, last, removedUsers, removedBooks >>

Idle == [op |-> "idle"]
NoResponse == [op |-> "none", path |-> << >>, status |-> 0, body |-> [none |-> TRUE]]

Init ==
  /\ users = << >>
  /\ books = << >>
  /\ userSeq = 0
  /\ bookSeq = 0
  /\ inflight = [r \in Slots |-> Idle]
  /\ last = NoResponse
  /\ removedUsers = {}
  /\ removedBooks = {}

\* --------------------------------------------------------------- responses
Text(s) == << s >>
Response(op, path, status, body) == [op |-> op, path |-> path, status |-> status, body |-> body]
MessageBody(s) == [message |-> Text(s)]
EmptyBody == [empty |-> TRUE]
NullBody == [null |-> TRUE]
\* An exception that leaves a handler: the framework's generic 500.
Uncaught(op, path) == Response(op, path, 500, MessageBody("Internal server error"))

\* A request arrives in the lowest slot that is free.
Free(r) == inflight[r] = Idle /\ \A s \in Slots : s < r => inflight[s] # Idle

\* The round trip that sends the response frees the slot.
Reply(r, resp) ==
  /\ last' = resp
  /\ inflight' = [inflight EXCEPT ![r] = Idle]
\* A round trip after which the request waits for its next one.
Await(r, req) ==
  /\ inflight' = [inflight EXCEPT ![r] = req]
  /\ last' = NoResponse

\* ------------------------------------------------------- the tables (ORM)
Without(table, id) == [i \in DOMAIN table \ {id} |-> table[i]]
With(table, id, row) == [i \in DOMAIN table \cup {id} |-> IF i = id THEN row ELSE table[i]]

UserEntity(id) == [id |-> id, email |-> users[id].email, password |-> users[id].password]
UserRow(e) == [email |-> e.email, password |-> e.password]
\* User.email is a unique column: an insert or update that would give two rows the
\* same email fails in the database.
EmailIsUnique == TRUE
UniqueViolation(id, email) ==
  EmailIsUnique /\ \E i \in DOMAIN users : i # id /\ users[i].email = email

\* repo.findOne({ where: { id } })
findUserById(id) == IF id \in DOMAIN users THEN Some(UserEntity(id)) ELSE None
\* repo.findOne({ where: { email } })
findUsersByEmail(email) ==
  IF \E i \in DOMAIN users : users[i].email = email
  THEN Some(UserEntity(CHOOSE i \in DOMAIN users : users[i].email = email))
  ELSE None

\* ForeignKeyViolation for a buyerId column without a constraint.
NoForeignKey(buyer) == FALSE

\* books.buyerId is a foreign key to users.id (ON DELETE NO ACTION).
BuyerIsReferenced(id) == \E b \in DOMAIN books : books[b].buyerId = Some(id)
ForeignKeyViolation(buyer) == IsSome(buyer) /\ Get(buyer) \notin DOMAIN users

\* Object.assign(found, dto): every field the dto carries overwrites the entity's.
AssignUser(found, dto) ==
  [id |-> found.id,
   email |-> IF IsSome(dto.email) THEN Get(dto.email) ELSE found.email,
   password |-> IF IsSome(dto.password) THEN Get(dto.password) ELSE found.password]

\* ------------------------------------------------------------ POST /users
CreateUserDtos == [email : Emails, password : SignupPasswords]
CreatesInFlight == Cardinality({r \in Slots : inflight[r].op = "createUser"})

\* UsersController.create up to the pre-lookup and the hash.
UsersCreate(r, dto) ==
  /\ Free(r)
  /\ userSeq + CreatesInFlight < MaxUsers
  /\ IF IsSome(findUsersByEmail(dto.email))
     THEN Reply(r, Response("POST /users", << >>, 400, MessageBody("User already exists")))
     ELSE Await(r, [op |-> "createUser",
                    dto |-> [email |-> dto.email, password |-> BcryptHash(dto.password)]])
  /\ UNCHANGED << users, books, userSeq, bookSeq, removedUsers, removedBooks >>

\* UsersService.addUser: repo.save(repo.create(dto)), then the 201.
UsersAddUser(r) ==
  /\ inflight[r].op = "createUser"
  /\ LET dto == inflight[r].dto
         id == userSeq + 1
     IN IF UniqueViolation(id, dto.email)
        THEN /\ Reply(r, Uncaught("POST /users", << >>))
             /\ UNCHANGED << users, userSeq >>
        ELSE /\ users' = With(users, id, [email |-> dto.email, password |-> dto.password])
             /\ userSeq' = id
             /\ Reply(r, Response("POST /users", << >>, 201, [id |-> id, email |-> dto.email]))
  /\ UNCHANGED << books, bookSeq, removedUsers, removedBooks >>

\* ---------------------------------------------------------- PUT /users/:id
OptionalOf(S) == {None} \cup {Some(x) : x \in S}
UpdateUserDtos == [email : OptionalOf(Emails), password : OptionalOf(UpdatePasswords)]
KnownUserIds == (1..userSeq) \cup {UnknownId}
KnownBookIds == (1..bookSeq) \cup {UnknownId}

\* if (dto.password) dto.password = await bcrypt.hash(dto.password, 10)
HashIfPresent(dto) ==
  [email |-> dto.email,
   password |-> IF Truthy(dto.password) THEN Some(BcryptHash(Get(dto.password)))
                ELSE IF IsSome(dto.password) THEN Some(Raw(Get(dto.password)))
                ELSE None]

\* UsersController.update up to its existence check and the hash.
UsersUpdate(r, id, dto) ==
  /\ Free(r)
  /\ IF IsSome(findUserById(id))
     THEN Await(r, [op |-> "updateUser", pc |-> "find", id |-> id, dto |-> HashIfPresent(dto)])
     ELSE Reply(r, Response("PUT /users/:id", << id >>, 404, MessageBody("User not found")))
  /\ UNCHANGED << users, books, userSeq, bookSeq, removedUsers, removedBooks >>

\* UsersService.updateUser: its own findUserById, then Object.assign.
UsersUpdateFind(r) ==
  /\ inflight[r].op = "updateUser" /\ inflight[r].pc = "find"
  /\ LET req == inflight[r]
         found == findUserById(req.id)
     IN IF IsSome(found)
        THEN Await(r, [op |-> "updateUser", pc |-> "save", id |-> req.id,
                       found |-> AssignUser(Get(found), req.dto)])
        ELSE Reply(r, Response("PUT /users/:id", << req.id >>, 200, NullBody))
  /\ UNCHANGED << users, books, userSeq, bookSeq, removedUsers, removedBooks >>

\* UsersService.updateUser: repo.save(found) updates the row of that id, or inserts
\* it when the table holds none; then the 200.
UsersUpdateSave(r) ==
  /\ inflight[r].op = "updateUser" /\ inflight[r].pc = "save"
  /\ LET e == inflight[r].found
     IN IF UniqueViolation(e.id, e.email)
        THEN /\ Reply(r, Uncaught("PUT /users/:id", << e.id >>))
             /\ UNCHANGED users
        ELSE /\ users' = With(users, e.id, UserRow(e))
             /\ Reply(r, Response("PUT /users/:id", << e.id >>, 200, e))
  /\ UNCHANGED << books, userSeq, bookSeq, removedUsers, removedBooks >>

\* ------------------------------------------------------- DELETE /users/:id
\* removeUser reporting a removal whatever repo.delete affected.
removeUserAlways(id) == TRUE

\* UsersService.removeUser: !!res.affected of repo.delete(id).
removeUser(id) == id \in DOMAIN users

UsersRemove(r, id) ==
  /\ Free(r)
  /\ IF BuyerIsReferenced(id)
     THEN /\ Reply(r, Uncaught("DELETE /users/:id", << id >>))
          /\ UNCHANGED << users, removedUsers >>
     ELSE IF removeUser(id)
     THEN /\ users' = Without(users, id)
          /\ removedUsers' = removedUsers \cup {id}
          /\ Reply(r, Response("DELETE /users/:id", << id >>, 204, EmptyBody))
     ELSE /\ Reply(r, Response("DELETE /users/:id", << id >>, 404, MessageBody("User not found")))
          /\ UNCHANGED << users, removedUsers >>
  /\ UNCHANGED << books, userSeq, bookSeq, removedBooks >>

\* -------------------------------------------------------- POST /users/login
LoginDtos == [email : Emails, password : Passwords]
\* UsersService.login: the signed token, standing for its payload.
Token(email) == [token |-> << "jwt", email >>]

\* LoginResponse without the bcrypt.compare and its 401.
LoginResponseUnchecked(user, body) ==
  IF ~IsSome(user)
  THEN Response("POST /users/login", << >>, 404, MessageBody("User not found"))
  ELSE Response("POST /users/login", << >>, 200, Token(Get(user).email))

\* UsersController.login after the lookup: 404, the compare and its 401, the token.
LoginResponse(user, body) ==
  IF ~IsSome(user)
  THEN Response("POST /users/login", << >>, 404, MessageBody("User not found"))
  ELSE IF ~BcryptCompare(body.password, Get(user).password)
  THEN Response("POST /users/login", << >>, 401, MessageBody("Invalid credentials"))
  ELSE Response("POST /users/login", << >>, 200, Token(Get(user).email))

UsersLogin(r, body) ==
  /\ Free(r)
  /\ Reply(r, LoginResponse(findUsersByEmail(body.email), body))
  /\ UNCHANGED << users, books, userSeq, bookSeq, removedUsers, removedBooks >>

\* ------------------------------------------------- GET /users, GET /users/:id
\* UsersService.getUsers: repo.find().
getUsers == {UserEntity(i) : i \in DOMAIN users}

UsersFindAll(r) ==
  /\ Free(r)
  /\ Reply(r, Response("GET /users", << >>, 200, [list |-> getUsers]))
  /\ UNCHANGED << users, books, userSeq, bookSeq, removedUsers, removedBooks >>

UsersFindOne(r, id) ==
  /\ Free(r)
  /\ LET u == findUserById(id)
     IN Reply(r, IF IsSome(u)
                 THEN Response("GET /users/:id", << id >>, 200, Get(u))
                 ELSE Response("GET /users/:id", << id >>, 404, MessageBody("User not found")))
  /\ UNCHANGED << users, books, userSeq, bookSeq, removedUsers, removedBooks >>

\* ================================================================== books
BookEntity(id) ==
  [id |-> id, title |-> books[id].title, author |-> books[id].author,
   isSold |-> books[id].isSold, buyer |-> books[id].buyerId]
BookRow(e) == [title |-> e.title, author |-> e.author, isSold |-> e.isSold, buyerId |-> e.buyer]

\* repo.findOne({ where: { id }, relations: ['buyer'] }); the loaded buyer stands
\* for its id, the only part of it a save writes back.
findBookById(id) == IF id \in DOMAIN books THEN Some(BookEntity(id)) ELSE None

\* Object.assign(b, dto) with an UpdateBookDto.
AssignBook(b, dto) ==
  [id |-> b.id,
   title |-> IF IsSome(dto.title) THEN Get(dto.title) ELSE b.title,
   author |-> IF IsSome(dto.author) THEN Get(dto.author) ELSE b.author,
   isSold |-> IF IsSome(dto.isSold) THEN Get(dto.isSold) ELSE b.isSold,
   buyer |-> b.buyer]

\* ------------------------------------------------------------- POST /books
\* The body of the request as the handler receives it: the fields of a book, with or
\* without an isSold and a buyer ({ id }) of the client's choosing.
CreateBookDtos ==
  [title : Titles, author : Authors, isSold : OptionalOf(BOOLEAN),
   buyer : OptionalOf(KnownUserIds)]

\* The body { title: 'T', author: 'A', price: 10 }.
PlainBook == [title |-> "T", author |-> "A", isSold |-> None, buyer |-> None]

\* BooksService.addBook: repo.create({ ...dto, isSold: false }).
NewBook(dto) ==
  [title |-> dto.title, author |-> dto.author, isSold |-> FALSE, buyerId |-> dto.buyer]

\* BooksController.create: addBook's repo.save(entity) and the 201; a save that throws
\* is caught.
BooksCreate(r, dto) ==
  /\ Free(r)
  /\ bookSeq < MaxBooks
  /\ LET id == bookSeq + 1
     IN IF ForeignKeyViolation(NewBook(dto).buyerId)
        THEN /\ Reply(r, Response("POST /books", << >>, 500,
                                  MessageBody("Error creating book")))
             /\ UNCHANGED << books, bookSeq >>
        ELSE /\ books' = With(books, id, NewBook(dto))
             /\ bookSeq' = id
             /\ Reply(r, Response("POST /books", << >>, 201, [id |-> id] @@ NewBook(dto)))
  /\ UNCHANGED << users, userSeq, removedUsers, removedBooks >>

\* -------------------------------------------------------- DELETE /books/:id
\* BooksService.removeBook: !!res.affected of repo.delete(id).
removeBook(id) == id \in DOMAIN books

BooksRemove(r, id) ==
  /\ Free(r)
  /\ IF removeBook(id)
     THEN /\ books' = Without(books, id)
          /\ removedBooks' = removedBooks \cup {id}
          /\ Reply(r, Response("DELETE /books/:id", << id >>, 204, EmptyBody))
     ELSE /\ Reply(r, Response("DELETE /books/:id", << id >>, 404, MessageBody("Book not found")))
          /\ UNCHANGED << books, removedBooks >>
  /\ UNCHANGED << users, userSeq, bookSeq, removedUsers >>

\* ----------------------------------------------------------- PUT /books/:id
UpdateBookDtos ==
  [title : OptionalOf(Titles), author : OptionalOf(Authors), isSold : OptionalOf(BOOLEAN)]

\* BooksController.update up to its existence check.
BooksUpdate(r, id, dto) ==
  /\ Free(r)
  /\ IF IsSome(findBookById(id))
     THEN Await(r, [op |-> "updateBook", pc |-> "find", id |-> id, dto |-> dto])
     ELSE Reply(r, Response("PUT /books/:id", << id >>, 404, MessageBody("Book not found")))
  /\ UNCHANGED << users, books, userSeq, bookSeq, removedUsers, removedBooks >>

\* BooksService.updateBook: its own findBookById, then Object.assign.
BooksUpdateFind(r) ==
  /\ inflight[r].op = "updateBook" /\ inflight[r].pc = "find"
  /\ LET req == inflight[r]
         b == findBookById(req.id)
     IN IF IsSome(b)
        THEN Await(r, [op |-> "updateBook", pc |-> "save", id |-> req.id,
                       b |-> AssignBook(Get(b), req.dto)])
        ELSE Reply(r, Response("PUT /books/:id", << req.id >>, 200, NullBody))
  /\ UNCHANGED << users, books, userSeq, bookSeq, removedUsers, removedBooks >>

\* BooksService.updateBook: repo.save(b) updates the row of that id, or inserts it
\* when the table holds none; then the 200.
BooksUpdateSave(r) ==
  /\ inflight[r].op = "updateBook" /\ inflight[r].pc = "save"
  /\ LET b == inflight[r].b
     IN IF ForeignKeyViolation(b.buyer)
        THEN /\ Reply(r, Uncaught("PUT /books/:id", << b.id >>))
             /\ UNCHANGED books
        ELSE /\ books' = With(books, b.id, BookRow(b))
             /\ Reply(r, Response("PUT /books/:id", << b.id >>, 200, b))
  /\ UNCHANGED << users, userSeq, bookSeq, removedUsers, removedBooks >>

\* ----------------------- GET /books, GET /books/:id, GET /books/author/:id
\* BooksService.getBooks: repo.find({ relations: ['buyer'] }).
getBooks == {BookEntity(i) : i \in DOMAIN books}

BooksFindAll(r) ==
  /\ Free(r)
  /\ Reply(r, Response("GET /books", << >>, 200, [list |-> getBooks]))
  /\ UNCHANGED << users, books, userSeq, bookSeq, removedUsers, removedBooks >>

BooksFindOne(r, id) ==
  /\ Free(r)
  /\ LET b == findBookById(id)
     IN Reply(r, IF IsSome(b)
                 THEN Response("GET /books/:id", << id >>, 200, Get(b))
                 ELSE Response("GET /books/:id", << id >>, 404, MessageBody("Book not found")))
  /\ UNCHANGED << users, books, userSeq, bookSeq, removedUsers, removedBooks >>

\* SQL LOWER on the author strings in use.
Lower(s) == IF s = "A" THEN "a" ELSE IF s = "B" THEN "b" ELSE s
\* BooksService.findBookByAuthor: LOWER(b.author) = LOWER(:a); the buyer is not joined.
findBookByAuthor(author) ==
  {[id |-> i, title |-> books[i].title, author |-> books[i].author, isSold |-> books[i].isSold] :
     i \in {j \in DOMAIN books : Lower(books[j].author) = Lower(author)}}

BooksByAuthor(r, author) ==
  /\ Free(r)
  /\ Reply(r, Response("GET /books/author/:id", << author >>, 200,
                        [list |-> findBookByAuthor(author)]))
  /\ UNCHANGED << users, books, userSeq, bookSeq, removedUsers, removedBooks >>

\* ------------------------------------------- POST /books/:bookId/buy/:userId
\* `El libro ${found.title} ha sido comprado por el usuario con ID ${userId}.`
BoughtMessage(title, userId) ==
  << "El libro ", title, " ha sido comprado por el usuario con ID ", userId, "." >>
NotBought(bookId, userId) ==
  Response("POST /books/:bookId/buy/:userId", << bookId, userId >>, 404,
           MessageBody("Book not found or already sold"))

\* Unavailable without the test of isSold.
UnavailableOnlyIfMissing(found) == ~IsSome(found)

\* buyBook's test: !found || found.isSold.
Unavailable(found) == ~IsSome(found) \/ Get(found).isSold

\* MarkSold without the assignment of the buyer.
MarkSoldKeepsBuyer(book, buyer) ==
  [id |-> book.id, title |-> book.title, author |-> book.author, isSold |-> TRUE,
   buyer |-> book.buyer]

\* markBookAsSold: book.isSold = true; book.buyer = buyer.
MarkSold(book, buyer) ==
  [id |-> book.id, title |-> book.title, author |-> book.author, isSold |-> TRUE,
   buyer |-> Some(buyer.id)]

\* BooksService.buyBook: findBookById, and the test on what it found.
BooksBuy(r, bookId, userId) ==
  /\ Free(r)
  /\ LET found == findBookById(bookId)
     IN IF Unavailable(found)
        THEN Reply(r, NotBought(bookId, userId))
        ELSE Await(r, [op |-> "buy", pc |-> "mark", bookId |-> bookId, userId |-> userId,
                       title |-> Get(found).title])
  /\ UNCHANGED << users, books, userSeq, bookSeq, removedUsers, removedBooks >>

\* Missing with a second test of isSold.
MissingOrSold(book) == ~IsSome(book) \/ Get(book).isSold

\* markBookAsSold's test of what its lookup found: if (!book) return null.
Missing(book) == ~IsSome(book)

\* BooksService.markBookAsSold: its own findBookById.
BooksMarkFindBook(r) ==
  /\ inflight[r].op = "buy" /\ inflight[r].pc = "mark"
  /\ LET req == inflight[r]
         book == findBookById(req.bookId)
     IN IF Missing(book)
        THEN Reply(r, NotBought(req.bookId, req.userId))
        ELSE Await(r, [op |-> "buy", pc |-> "buyer", bookId |-> req.bookId,
                       userId |-> req.userId, title |-> req.title, book |-> Get(book)])
  /\ UNCHANGED << users, books, userSeq, bookSeq, removedUsers, removedBooks >>

\* BooksService.markBookAsSold: users.findOne({ where: { id: userId } }), then the
\* two assignments.
BooksMarkFindBuyer(r) ==
  /\ inflight[r].op = "buy" /\ inflight[r].pc = "buyer"
  /\ LET req == inflight[r]
         buyer == findUserById(req.userId)
     IN IF ~IsSome(buyer)
        THEN Reply(r, NotBought(req.bookId, req.userId))
        ELSE Await(r, [op |-> "buy", pc |-> "save", bookId |-> req.bookId,
                       userId |-> req.userId, title |-> req.title,
                       book |-> MarkSold(req.book, Get(buyer))])
  /\ UNCHANGED << users, books, userSeq, bookSeq, removedUsers, removedBooks >>

\* BooksService.markBookAsSold: repo.save(book); then buyBook's message and the 200.
\* A save that throws is caught by BooksController.buy.
BooksMarkSave(r) ==
  /\ inflight[r].op = "buy" /\ inflight[r].pc = "save"
  /\ LET req == inflight[r]
         path == << req.bookId, req.userId >>
     IN IF ForeignKeyViolation(req.book.buyer)
        THEN /\ Reply(r, Response("POST /books/:bookId/buy/:userId", path, 500,
                                  MessageBody("Error buying book")))
             /\ UNCHANGED books
        ELSE /\ books' = With(books, req.book.id, BookRow(req.book))
             /\ Reply(r, Response("POST /books/:bookId/buy/:userId", path, 200,
                                  [message |-> BoughtMessage(req.title, req.userId)]))
  /\ UNCHANGED << users, userSeq, bookSeq, removedUsers, removedBooks >>

\* ======================================================= unexpected errors
\* The handlers whose service call sits in a try/catch, and the message of the catch.
CatchMessage ==
  ("POST /books" :> "Error creating book")
  @@ ("GET /books" :> "Error fetching books")
  @@ ("GET /books/author/:id" :> "Error fetching books by author")
  @@ ("POST /books/:bookId/buy/:userId" :> "Error buying book")

\* OnError for a controller without any try/catch.
OnErrorUncaught(op, path) == Uncaught(op, path)

\* What a handler answers when its service call rejects.
OnError(op, path) ==
  IF op \in DOMAIN CatchMessage
  THEN Response(op, path, 500, MessageBody(CatchMessage[op]))
  ELSE Uncaught(op, path)

\* The endpoints, each with the path parameters of one request to it: the ids are those
\* generated last (UnknownId before any is), the author the first asked for.
Requests ==
  {<< op, << >> >> : op \in {"POST /users", "GET /users", "POST /users/login",
                            "POST /books", "GET /books"}}
  \cup {<< op, << userSeq >> >> : op \in {"GET /users/:id", "PUT /users/:id", "DELETE /users/:id"}}
  \cup {<< op, << bookSeq >> >> : op \in {"GET /books/:id", "PUT /books/:id", "DELETE /books/:id"}}
  \cup {<< "GET /books/author/:id", << "a" >> >>}
  \cup {<< "POST /books/:bookId/buy/:userId", << bookSeq, userSeq >> >>}

\* The endpoint and the path of a request that is between two round trips.
OpOf(req) ==
  CASE req.op = "createUser" -> "POST /users"
    [] req.op = "updateUser" -> "PUT /users/:id"
    [] req.op = "updateBook" -> "PUT /books/:id"
    [] req.op = "buy" -> "POST /books/:bookId/buy/:userId"
PathOf(req) ==
  CASE req.op = "createUser" -> << >>
    [] req.op = "updateUser" -> << req.id >>
    [] req.op = "updateBook" -> << req.id >>
    [] req.op = "buy" -> << req.bookId, req.userId >>

\* The first repository call of a request rejects (the database is unreachable, the
\* query fails): nothing is written.
RejectsFirst(r, op, path) ==
  /\ Free(r)
  /\ Reply(r, OnError(op, path))
  /\ UNCHANGED << users, books, userSeq, bookSeq, removedUsers, removedBooks >>

\* A later repository call of a request rejects.
RejectsLater(r) ==
  /\ inflight[r] # Idle
  /\ Reply(r, OnError(OpOf(inflight[r]), PathOf(inflight[r])))
  /\ UNCHANGED << users, books, userSeq, bookSeq, removedUsers, removedBooks >>

\* ========================================================= specifications
\* The round trips of the requests on the user endpoints.
Signup(r) ==
  \/ \E dto \in CreateUserDtos : UsersCreate(r, dto)
  \/ UsersAddUser(r)
UserRemoval(r) == \E id \in KnownUserIds : UsersRemove(r, id)
UserUpdate(r) ==
  \/ \E id \in KnownUserIds, dto \in UpdateUserDtos : UsersUpdate(r, id, dto)
  \/ UsersUpdateFind(r)
  \/ UsersUpdateSave(r)
\* PUT /users/:id with a body that carries no password.
EmailUpdates == {dto \in UpdateUserDtos : dto.password = None}
UserRename(r) ==
  \/ \E id \in KnownUserIds, dto \in EmailUpdates : UsersUpdate(r, id, dto)
  \/ UsersUpdateFind(r)
  \/ UsersUpdateSave(r)
Login(r) == \E body \in LoginDtos : UsersLogin(r, body)
UserFetch(r) ==
  \/ UsersFindAll(r)
  \/ \E id \in KnownUserIds : UsersFindOne(r, id)

\* The round trips of the requests on the book endpoints.
BookCrud(r) ==
  \/ \E dto \in CreateBookDtos : BooksCreate(r, dto)
  \/ \E id \in KnownBookIds : BooksRemove(r, id)
  \/ \E id \in KnownBookIds, dto \in UpdateBookDtos : BooksUpdate(r, id, dto)
  \/ BooksUpdateFind(r)
  \/ BooksUpdateSave(r)
BookFetch(r) ==
  \/ BooksFindAll(r)
  \/ \E id \in KnownBookIds : BooksFindOne(r, id)
  \/ \E author \in AuthorQueries : BooksByAuthor(r, author)
Purchase(r) ==
  \/ \E b \in KnownBookIds, u \in KnownUserIds : BooksBuy(r, b, u)
  \/ BooksMarkFindBook(r)
  \/ BooksMarkFindBuyer(r)
  \/ BooksMarkSave(r)

\* A repository call that fails with an unexpected error.
Fault(r) ==
  \/ \E req \in Requests : RejectsFirst(r, req[1], req[2])
  \/ RejectsLater(r)

\* Requests are handled independently: any request may take its next round trip.
Next ==
  \E r \in Slots :
    \/ Signup(r) \/ UserRemoval(r) \/ UserUpdate(r) \/ Login(r) \/ UserFetch(r)
    \/ BookCrud(r) \/ BookFetch(r) \/ Purchase(r)

Spec == Init /\ [][Next]_vars

\* The user endpoints: no request on them reads or writes the books table, and
\* the books table holds no row unless a book endpoint is called.
NextUsers ==
  \E r \in Slots : Signup(r) \/ UserRemoval(r) \/ UserUpdate(r) \/ Login(r)

SpecUsers == Init /\ [][NextUsers]_vars

\* The same, one request at a time: every request finishes before the next arrives.
NextUsersSeq ==
  \E r \in {1} : Signup(r) \/ UserRemoval(r) \/ UserUpdate(r) \/ Login(r)

SpecUsersSeq == Init /\ [][NextUsersSeq]_vars

\* The book endpoints, with the user requests that decide what they do: signup and
\* removal of users.

NextBooks ==
  \E r \in Slots : Signup(r) \/ UserRemoval(r) \/ BookCrud(r) \/ Purchase(r)

SpecBooks == Init /\ [][NextBooks]_vars

\* The same, one request at a time.
NextBooksSeq ==
  \E r \in {1} : Signup(r) \/ UserRemoval(r) \/ BookCrud(r) \/ Purchase(r)

SpecBooksSeq == Init /\ [][NextBooksSeq]_vars

\* Purchases that interleave, with the signups and the book creations that give them
\* users and books; the books are created with the body of the controller's test.
NextSales ==
  \E r \in Slots :
    \/ Signup(r)
    \/ BooksCreate(r, PlainBook)
    \/ Purchase(r)

SpecSales == Init /\ [][NextSales]_vars

\* Every endpoint, one request at a time.
NextSeq ==
  \E r \in {1} :
    \/ Signup(r) \/ UserRemoval(r) \/ UserUpdate(r) \/ Login(r) \/ UserFetch(r)
    \/ BookCrud(r) \/ BookFetch(r) \/ Purchase(r)

SpecSeq == Init /\ [][NextSeq]_vars

\* The endpoints of both resources that create, read, update, delete and buy, one
\* request at a time.  The PUT /users bodies carry no password here: what a password
\* update stores is the matter of SpecUsersSeq.
NextCrudSeq ==
  \E r \in {1} :
    \/ Signup(r) \/ UserRemoval(r) \/ UserRename(r) \/ UserFetch(r)
    \/ BookCrud(r) \/ BookFetch(r) \/ Purchase(r)

SpecCrudSeq == Init /\ [][NextCrudSeq]_vars

\* The same with login, and with repository calls that may fail.
NextFaultsSeq ==
  \E r \in {1} :
    \/ Signup(r) \/ UserRemoval(r) \/ UserRename(r) \/ Login(r) \/ UserFetch(r)
    \/ BookCrud(r) \/ BookFetch(r) \/ Purchase(r)
    \/ Fault(r)

SpecFaultsSeq == Init /\ [][NextFaultsSeq]_vars

\* ================================================================== claims
BuyOp == "POST /books/:bookId/buy/:userId"

\* C1: every stored book has isSold = TRUE exactly when its buyer is set.
C1_SoldIffBuyer ==
  \A b \in DOMAIN books : books[b].isSold <=> IsSome(books[b].buyerId)

\* C2: a stored book that is sold to buyer u is, in the next state where it is still
\* stored, sold to the same buyer u.
C2_SoldStaysSold ==
  [][\A b \in DOMAIN books \cap DOMAIN books' :
       (books[b].isSold /\ IsSome(books[b].buyerId))
         => (books'[b].isSold /\ books'[b].buyerId = books[b].buyerId)]_vars

\* C3: with one request at a time, the round trip that answers a purchase of a stored,
\* unsold book by a stored user writes that book with isSold = TRUE and that user as
\* buyer, changes nothing else in the two tables, and answers 200 with the message
\* built from the stored title and the userId of the path.
C3_PurchaseAlone ==
  [][\A r \in Slots :
       (Purchase(r) /\ last' # NoResponse) =>
         LET b == last'.path[1]
             u == last'.path[2]
         IN (b \in DOMAIN books /\ ~books[b].isSold /\ u \in DOMAIN users) =>
              /\ books' = With(books, b, [title |-> books[b].title,
                                          author |-> books[b].author,
                                          isSold |-> TRUE, buyerId |-> Some(u)])
              /\ users' = users
              /\ last' = Response(BuyOp, << b, u >>, 200,
                                  [message |-> BoughtMessage(books[b].title, u)])]_vars

\* C3 witness: a purchase has just been answered 200 and the book is stored as sold to
\* the user of the path.
C3_Witness ==
  /\ last.op = BuyOp
  /\ last.status = 200
  /\ last.path[1] \in DOMAIN books
  /\ books[last.path[1]].isSold
  /\ books[last.path[1]].buyerId = Some(last.path[2])

C5_SignupOutcome ==
  [][\A r \in Slots :
       /\ \A dto \in CreateUserDtos :
            UsersCreate(r, dto) =>
              /\ users' = users
              /\ IF \E i \in DOMAIN users : users[i].email = dto.email
                 THEN last' = Response("POST /users", << >>, 400,
                                       MessageBody("User already exists"))
                 ELSE last' = NoResponse /\ inflight'[r].op = "createUser"
       /\ UsersAddUser(r) =>
            \E id \in UserIds \ DOMAIN users, p \in SignupPasswords :
              /\ users' = With(users, id, [email |-> inflight[r].dto.email,
                                           password |-> BcryptHash(p)])
              /\ last' = Response("POST /users", << >>, 201,
                                  [id |-> id, email |-> inflight[r].dto.email])]_vars

\* C6: no two stored users have the same email, and no signup has been turned down by
\* the database's unique constraint (the only exception an insert of a user raises).
C6_UniqueByPreLookup ==
  /\ \A i, j \in DOMAIN users : i # j => users[i].email # users[j].email
  /\ last # Uncaught("POST /users", << >>)

\* C7: the password of every stored user is the hash of some request plaintext.
C7_PasswordsHashed ==
  \A i \in DOMAIN users :
    \E p \in Passwords : users[i].password = BcryptHash(p)

\* C8: a login answers 404 without a token when no stored user has the email, 401
\* "Invalid credentials" without a token when one has it and its stored password is not
\* the hash of the supplied password, and 200 only when a stored user has the email and
\* its stored password is the hash of the supplied password, the body then being a token.
C8_LoginOutcome ==
  [][\A r \in Slots, body \in LoginDtos :
       UsersLogin(r, body) =>
         LET holders == {i \in DOMAIN users : users[i].email = body.email}
             matching == {i \in holders : users[i].password = BcryptHash(body.password)}
         IN /\ holders = {} =>
                 last'.status = 404 /\ "token" \notin DOMAIN last'.body
            /\ (holders # {} /\ matching = {}) =>
                 last' = Response("POST /users/login", << >>, 401,
                                  MessageBody("Invalid credentials"))
            /\ last'.status = 200 =>
                 matching # {} /\ DOMAIN last'.body = {"token"}
            /\ last'.status # 200 => "token" \notin DOMAIN last'.body]_vars

\* C8 witness: a login has just been answered 200 with a token, for a user whose
\* stored password is the hash a PUT set after signup.
C8_Witness ==
  /\ last.op = "POST /users/login"
  /\ last.status = 200
  /\ \E i \in DOMAIN users :
       /\ << "jwt", users[i].email >> = last.body.token
       /\ users[i].password = BcryptHash("abcdefgh")

\* C9: a user id, or a book id, whose DELETE has been answered 204 has no stored record.
C9_RemovedStayRemoved ==
  /\ \A id \in removedUsers : id \notin DOMAIN users
  /\ \A id \in removedBooks : id \notin DOMAIN books

\* C10: a DELETE of a stored id is answered 204 and removes the record; a DELETE that
\* directly follows the 204 of a DELETE of the same id is answered 404 with the
\* resource's "not found" message; and a DELETE answers 204 exactly when it removed a
\* record.  For users and for books.
C10_DeleteTwice ==
  [][\A r \in Slots :
       /\ \A id \in KnownUserIds :
            UsersRemove(r, id) =>
              /\ id \in DOMAIN users =>
                   last' = Response("DELETE /users/:id", << id >>, 204, EmptyBody)
              /\ last = Response("DELETE /users/:id", << id >>, 204, EmptyBody) =>
                   last' = Response("DELETE /users/:id", << id >>, 404,
                                    MessageBody("User not found"))
              /\ last'.status = 204 <=> (id \in DOMAIN users /\ users' = Without(users, id))
       /\ \A id \in KnownBookIds :
            BooksRemove(r, id) =>
              /\ id \in DOMAIN books =>
                   last' = Response("DELETE /books/:id", << id >>, 204, EmptyBody)
              /\ last = Response("DELETE /books/:id", << id >>, 204, EmptyBody) =>
                   last' = Response("DELETE /books/:id", << id >>, 404,
                                    MessageBody("Book not found"))
              /\ last'.status = 204 <=> (id \in DOMAIN books /\ books' = Without(books, id))]_vars

C12_CreatedAvailable ==
  [][bookSeq' # bookSeq =>
       /\ books'[bookSeq'].isSold = FALSE
       /\ books'[bookSeq'].buyerId = None]_vars

\* C13: a request is answered 500 only when one of its repository calls fails; the round
\* trip that answers 500 writes nothing, and the answer carries the fixed message of the
\* handler if the request is POST /books, GET /books, GET /books/author/:id or a
\* purchase (the exception does not leave the handler), while on every other endpoint it
\* is the exception that left the handler.  A request whose later repository call
\* fails is answered 500.
C13_CaughtOrNot ==
  [][/\ last'.status = 500 =>
          /\ users' = users /\ books' = books
          /\ last'.op = "POST /books" =>
               last' = Response(last'.op, last'.path, 500, MessageBody("Error creating book"))
          /\ last'.op = "GET /books" =>
               last' = Response(last'.op, last'.path, 500, MessageBody("Error fetching books"))
          /\ last'.op = "GET /books/author/:id" =>
               last' = Response(last'.op, last'.path, 500,
                                MessageBody("Error fetching books by author"))
          /\ last'.op = BuyOp =>
               last' = Response(last'.op, last'.path, 500, MessageBody("Error buying book"))
          /\ last'.op \notin {"POST /books", "GET /books", "GET /books/author/:id", BuyOp} =>
               last' = Uncaught(last'.op, last'.path)
     /\ \A r \in Slots : RejectsLater(r) => last'.status = 500]_vars

\* C13 witness: with a book stored, a GET /books/author/:id whose query failed has just
\* been answered 500 with the fixed message of its handler.
C13_Witness ==
  /\ last = Response("GET /books/author/:id", last.path, 500,
                     MessageBody("Error fetching books by author"))
  /\ books # << >>

\* C14: a purchase that has passed buyBook's test is not stopped by a sale of the same
\* book that was saved in between: markBookAsSold's own lookup goes on whenever the book
\* is stored, sold or not, and its save, with the buyer stored, writes the book as sold
\* to the user of this request alone and is answered 200 with the confirmation message.
\* So two purchases of one available book by two users that both pass the test are both
\* answered 200, and the buyer left is the one saved last.
C14_DoubleSale ==
  [][\A r \in Slots :
       /\ (BooksMarkFindBook(r) /\ inflight[r].bookId \in DOMAIN books) =>
            /\ last' = NoResponse
            /\ inflight'[r].pc = "buyer"
       /\ (BooksMarkSave(r) /\ inflight[r].userId \in DOMAIN users) =>
            /\ last' = Response(BuyOp, << inflight[r].bookId, inflight[r].userId >>, 200,
                                [message |-> BoughtMessage(inflight[r].title,
                                                           inflight[r].userId)])
            /\ books'[inflight[r].bookId].isSold
            /\ books'[inflight[r].bookId].buyerId = Some(inflight[r].userId)]_vars

\* C14 witness: the purchase of a book by one user has just been answered 200 and the
\* book is stored as sold to that user, while the purchase of the same book by another
\* stored user, which passed the test before, is about to save.
C14_Witness ==
  /\ last.op = BuyOp
  /\ last.status = 200
  /\ \E r \in Slots :
       /\ inflight[r].op = "buy"
       /\ inflight[r].pc = "save"
       /\ inflight[r].bookId = last.path[1]
       /\ inflight[r].userId # last.path[2]
       /\ inflight[r].userId \in DOMAIN users
       /\ inflight[r].bookId \in DOMAIN books
       /\ books[inflight[r].bookId].isSold
       /\ books[inflight[r].bookId].buyerId = Some(last.path[2])

\* C15: the body of every 200 response of PUT /users/:id and of PUT /books/:id is the
\* updated record, never null.
C15_UpdatedRecord ==
  (last.op \in {"PUT /users/:id", "PUT /books/:id"} /\ last.status = 200) =>
    /\ last.body # NullBody
    /\ "id" \in DOMAIN last.body
    /\ last.body.id = last.path[1]

\* C16: the buyer of every stored book is the id of a stored user.
C16_BuyerExists ==
  \A b \in DOMAIN books :
    IsSome(books[b].buyerId) => Get(books[b].buyerId) \in DOMAIN users

\* C16 witness: a purchase whose user was removed (DELETE answered 204) between the
\* buyer lookup and the save has just been turned down by the save, and the book is
\* stored without that user as buyer.
C16_Witness ==
  /\ last = Response(BuyOp, last.path, 500, MessageBody("Error buying book"))
  /\ last.path[2] \in removedUsers
  /\ last.path[2] \notin DOMAIN users
  /\ last.path[1] \in DOMAIN books
  /\ books[last.path[1]].buyerId # Some(last.path[2])

====
